---------------------------- MODULE Spec2Model ----------------------------
(***************************************************************************)
(* Model of the notebook Stage2_UsingAppropriateDataStructures.ipynb.      *)
(*                                                                         *)
(* Three parts, one specification each (plus one for the generator):       *)
(*   Spec        the benchmark functions of code cells 1 and 2, called     *)
(*               repeatedly by the timing harness, over a heap of objects  *)
(*   SpecCells   the three code cells run in any order in a fresh session  *)
(*   SpecMatrix  code cell 3: two generated buffers and their powers       *)
(*   SpecGen     generate_dense_matrix alone, for every size and draw      *)
(* Numbers are modelled exactly (integers, Gaussian integers); the model's *)
(* values stay far below the range where a double stops being exact.       *)
(***************************************************************************)
EXTENDS Integers, Sequences, FiniteSets, TLC

VARIABLES
    \* ---- the benchmark functions (cells 1 and 2)
    heap,        \* sequence of objects; an object's identity is its index
    pc,          \* "idle" | "loop" | "done": position of the running call
    fn,          \* name of the function called last
    arg,         \* its argument: a count, or the reference of a buffer
    out,         \* the local variable out / the returned reference
    it,          \* the loop's position (i of range(count), or the iterator's index)
    rem,         \* one earlier call remembered, for comparing two calls
    sample,      \* the sample values the prebuilt buffers were built from
    \* ---- the notebook's cells
    ns,          \* the session's global namespace: name -> binding cell (0: unbound)
    executed,    \* the cells run so far, in order
    crossReads,  \* reads of a name bound by another cell
    nameErrors,  \* NameErrors raised
    \* ---- cell 3
    mpc,         \* position in cell 3 / in generate_dense_matrix
    N,           \* the buffer's dimension
    P,           \* the power
    randRe,      \* the first np.random.rand(N, N) draw, in hundredths
    randIm,      \* the second np.random.rand(N, N) draw, in hundredths
    ret,         \* what generate_dense_matrix returned last
    big_ndarray,
    big_matrix,
    res_matrix,  \* big_matrix**P
    res_ndarray  \* big_ndarray**P

benchVars == <<heap, pc, fn, arg, out, it, rem, sample>>
cellVars == <<ns, executed, crossReads, nameErrors>>
matVars == <<mpc, N, P, randRe, randIm, ret,
             big_ndarray, big_matrix, res_matrix, res_ndarray>>
vars == <<benchVars, cellVars, matVars>>

\* ------------------------------------------------------------------ bounds
MaxCount == 5
MaxLen == 3
MaxVal == 2
MaxCalls == 2

\* ------------------------------------------------------------------ values
None == [none |-> TRUE]

RECURSIVE Pow(_, _)
Pow(x, n) == IF n = 0 THEN 1 ELSE x * Pow(x, n - 1)

\* range(n) as a sequence: 0, 1, ..., n-1
Range(n) == [i \in 1..n |-> i - 1]

SeqsUpTo(S, n) == UNION {[1..k -> S] : k \in 0..n}

\* ------------------------------------------------------------------ heap
List(s) == [kind |-> "list", elems |-> s]
NdArray(s) == [kind |-> "ndarray", elems |-> s]

PREBUILT_ARRAY == 1
PREBUILT_LIST == 2

\* The objects that outlive a call: the two prebuilt buffers.
Base(h) == SubSeq(h, 1, 2)

\* A new object; its reference is the heap's new length.
Alloc(h, obj) == Append(h, obj)

Val(r) == heap[r].elems

BenchIdle ==
    /\ heap = <<>>
    /\ pc = "off"
    /\ fn = "none"
    /\ arg = 0
    /\ out = 0
    /\ it = 0
    /\ rem = None
    /\ sample = <<>>

\* prebuilt_array = np.linspace(0,5000); prebuilt_list = list(prebuilt_array):
\* the sample is any short sequence, so that the functions are applied to
\* every input within the bounds.
BenchInit ==
    /\ sample \in SeqsUpTo(0..MaxVal, MaxLen)
    /\ heap = <<NdArray(sample), List(sample)>>
    /\ pc = "idle"
    /\ fn = "none"
    /\ arg = 0
    /\ out = 0
    /\ it = 0
    /\ rem = None

\* The harness may start a call when none is running.
CanCall == /\ pc \in {"idle", "done"}
           /\ rem # None => rem.n < MaxCalls

Called == IF rem = None THEN rem ELSE [rem EXCEPT !.n = @ + 1]

\* ---- build_list
\* Mutant: def build_list(count, out=[]) -- one list shared by every call.
build_list_call_shared(count) ==
    /\ CanCall
    /\ IF out # 0 /\ heap[out].kind = "list"
          THEN UNCHANGED <<heap, out>>
          ELSE /\ heap' = Alloc(Base(heap), List(<<>>))
               /\ out' = Len(Base(heap)) + 1
    /\ fn' = "build_list"
    /\ arg' = count
    /\ it' = 0
    /\ pc' = "loop"
    /\ rem' = Called
    /\ UNCHANGED sample

build_list_call(count) ==
    /\ CanCall
    /\ heap' = Alloc(Base(heap), List(<<>>))
    /\ out' = Len(Base(heap)) + 1
    /\ fn' = "build_list"
    /\ arg' = count
    /\ it' = 0
    /\ pc' = "loop"
    /\ rem' = Called
    /\ UNCHANGED sample

build_list_append ==
    /\ pc = "loop" /\ fn = "build_list"
    /\ it < arg
    /\ heap' = [heap EXCEPT ![out].elems = Append(@, it)]
    /\ it' = it + 1
    /\ UNCHANGED <<pc, fn, arg, out, rem, sample>>

build_list_return ==
    /\ pc = "loop" /\ fn = "build_list"
    /\ it >= arg
    /\ pc' = "done"
    /\ UNCHANGED <<heap, fn, arg, out, it, rem, sample>>

\* ---- build_array
build_array_call(count) ==
    /\ CanCall
    /\ heap' = Alloc(Base(heap), NdArray(<<>>))
    /\ out' = Len(Base(heap)) + 1
    /\ fn' = "build_array"
    /\ arg' = count
    /\ it' = 0
    /\ pc' = "loop"
    /\ rem' = Called
    /\ UNCHANGED sample

\* Mutant: the loop runs over range(1, count + 1).
build_array_append_from_one ==
    /\ pc = "loop" /\ fn = "build_array"
    /\ it < arg
    /\ heap' = Alloc(heap, NdArray(Append(Val(out), it + 1)))
    /\ out' = Len(heap) + 1
    /\ it' = it + 1
    /\ UNCHANGED <<pc, fn, arg, rem, sample>>

\* Mutant: the buffer grows in place, as a list does.
build_array_append_in_place ==
    /\ pc = "loop" /\ fn = "build_array"
    /\ it < arg
    /\ heap' = [heap EXCEPT ![out].elems = Append(@, it)]
    /\ it' = it + 1
    /\ UNCHANGED <<pc, fn, arg, out, rem, sample>>

\* out = np.append(out, i): a new array holding a copy of out and i.
build_array_append ==
    /\ pc = "loop" /\ fn = "build_array"
    /\ it < arg
    /\ heap' = Alloc(heap, NdArray(Append(Val(out), it)))
    /\ out' = Len(heap) + 1
    /\ it' = it + 1
    /\ UNCHANGED <<pc, fn, arg, rem, sample>>

build_array_return ==
    /\ pc = "loop" /\ fn = "build_array"
    /\ it >= arg
    /\ pc' = "done"
    /\ UNCHANGED <<heap, fn, arg, out, it, rem, sample>>

\* Mutant: list_struct*2 for list_struct**2.
square_all_array_doubled(list_struct) ==
    /\ CanCall
    /\ LET h == Base(heap)
           s == h[list_struct].elems
       IN /\ heap' = Alloc(h, NdArray([i \in 1..Len(s) |-> s[i] * 2]))
          /\ out' = Len(h) + 1
    /\ fn' = "square_all_array"
    /\ arg' = list_struct
    /\ it' = 0
    /\ pc' = "done"
    /\ rem' = Called
    /\ UNCHANGED sample

\* ---- square_all_array: list_struct**2, one whole-buffer operation
square_all_array(list_struct) ==
    /\ CanCall
    /\ LET h == Base(heap)
           s == h[list_struct].elems
       IN /\ heap' = Alloc(h, NdArray([i \in 1..Len(s) |-> Pow(s[i], 2)]))
          /\ out' = Len(h) + 1
    /\ fn' = "square_all_array"
    /\ arg' = list_struct
    /\ it' = 0
    /\ pc' = "done"
    /\ rem' = Called
    /\ UNCHANGED sample

\* Mutant: out = list_struct for out = [] -- the squares go into the input.
square_all_list_call_alias(list_struct) ==
    /\ CanCall
    /\ heap' = Base(heap)
    /\ out' = list_struct
    /\ fn' = "square_all_list"
    /\ arg' = list_struct
    /\ it' = 0
    /\ pc' = "loop"
    /\ rem' = Called
    /\ UNCHANGED sample

\* ---- square_all_list
square_all_list_call(list_struct) ==
    /\ CanCall
    /\ heap' = Alloc(Base(heap), List(<<>>))
    /\ out' = Len(Base(heap)) + 1
    /\ fn' = "square_all_list"
    /\ arg' = list_struct
    /\ it' = 0
    /\ pc' = "loop"
    /\ rem' = Called
    /\ UNCHANGED sample

\* for i in list_struct: out.append(i**2); the list iterator reads the
\* list's current length at every step.
square_all_list_append ==
    /\ pc = "loop" /\ fn = "square_all_list"
    /\ it < Len(Val(arg))
    /\ heap' = [heap EXCEPT ![out].elems = Append(@, Pow(Val(arg)[it + 1], 2))]
    /\ it' = it + 1
    /\ UNCHANGED <<pc, fn, arg, out, rem, sample>>

square_all_list_return ==
    /\ pc = "loop" /\ fn = "square_all_list"
    /\ it >= Len(Val(arg))
    /\ pc' = "done"
    /\ UNCHANGED <<heap, fn, arg, out, it, rem, sample>>

\* ---- square_list_FL
square_list_FL_call(list_struct) ==
    /\ CanCall
    /\ heap' = Alloc(Base(heap), List(<<>>))
    /\ out' = Len(Base(heap)) + 1
    /\ fn' = "square_list_FL"
    /\ arg' = list_struct
    /\ it' = 0
    /\ pc' = "loop"
    /\ rem' = Called
    /\ UNCHANGED sample

square_list_FL_append ==
    /\ pc = "loop" /\ fn = "square_list_FL"
    /\ it < Len(Val(arg))
    /\ heap' = [heap EXCEPT ![out].elems = Append(@, Pow(Val(arg)[it + 1], 2))]
    /\ it' = it + 1
    /\ UNCHANGED <<pc, fn, arg, out, rem, sample>>

square_list_FL_return ==
    /\ pc = "loop" /\ fn = "square_list_FL"
    /\ it >= Len(Val(arg))
    /\ pc' = "done"
    /\ UNCHANGED <<heap, fn, arg, out, it, rem, sample>>

\* Mutant: the comprehension walks the input backwards.
square_list_LC_reversed(list_struct) ==
    /\ CanCall
    /\ LET h == Base(heap)
           s == h[list_struct].elems
       IN /\ heap' = Alloc(h, List([i \in 1..Len(s) |-> Pow(s[Len(s) + 1 - i], 2)]))
          /\ out' = Len(h) + 1
    /\ fn' = "square_list_LC"
    /\ arg' = list_struct
    /\ it' = 0
    /\ pc' = "done"
    /\ rem' = Called
    /\ UNCHANGED sample

\* ---- square_list_LC: [element**2 for element in list_struct]
square_list_LC(list_struct) ==
    /\ CanCall
    /\ LET h == Base(heap)
           s == h[list_struct].elems
       IN /\ heap' = Alloc(h, List([i \in 1..Len(s) |-> Pow(s[i], 2)]))
          /\ out' = Len(h) + 1
    /\ fn' = "square_list_LC"
    /\ arg' = list_struct
    /\ it' = 0
    /\ pc' = "done"
    /\ rem' = Called
    /\ UNCHANGED sample

\* The argument's value: the count, or the buffer's elements.
ArgVal == IF fn \in {"build_list", "build_array"} THEN arg ELSE Val(arg)

\* Bookkeeping of the comparison of calls: the call that just returned is
\* remembered (at most one is), with its argument and result.
Remember ==
    /\ pc = "done"
    /\ rem = None
    /\ rem' = [fn |-> fn, arg |-> ArgVal, val |-> Val(out), n |-> 0]
    /\ UNCHANGED <<heap, pc, fn, arg, out, it, sample>>

BenchNext ==
    \/ \E count \in 0..MaxCount : build_list_call(count)
    \/ build_list_append
    \/ build_list_return
    \/ \E count \in 0..MaxCount : build_array_call(count)
    \/ build_array_append
    \/ build_array_return
    \/ square_all_list_call(PREBUILT_LIST)
    \/ square_all_list_append
    \/ square_all_list_return
    \/ square_all_array(PREBUILT_ARRAY)
    \/ square_list_FL_call(PREBUILT_LIST)
    \/ square_list_FL_append
    \/ square_list_FL_return
    \/ square_list_LC(PREBUILT_LIST)
    \/ Remember

\* ------------------------------------------------------------------ cells
MaxRuns == 4

Cells == {1, 2, 3}

Names == {"np", "timeit", "build_list", "build_array", "prebuilt_array",
          "prebuilt_list", "square_all_array", "square_all_list",
          "square_list_FL", "square_list_LC", "generate_dense_matrix",
          "big_ndarray", "big_matrix"}

\* A statement: the global names it looks up, in evaluation order, and the
\* names it binds when it completes.  Builtins (print, range, list) and the
\* %timeit magic are no names of the session.
Stmt(reads, binds) == [reads |-> reads, binds |-> binds]

\* The global names a function's body looks up when it is called.
Globals(f) ==
    CASE f = "build_array" -> <<"np">>
      [] f = "generate_dense_matrix" -> <<"np">>
      [] OTHER -> <<>>

\* f(args): f is looked up, then the arguments, then the body runs.
Call(f, args) == <<f>> \o args \o Globals(f)

\* Code cell 1, statement by statement.
Cell1 ==
    << Stmt(<<>>, {"np"}),
       Stmt(<<>>, {"timeit"}),
       Stmt(<<>>, {"build_list"}),
       Stmt(<<>>, {"build_array"}),
       Stmt(<<>>, {}),
       Stmt(Call("build_list", <<>>), {}),
       Stmt(Call("build_array", <<>>), {}),
       Stmt(<<"np">>, {"prebuilt_array"}),
       Stmt(<<"prebuilt_array">>, {"prebuilt_list"}),
       Stmt(<<>>, {"square_all_array"}),
       Stmt(<<>>, {"square_all_list"}),
       Stmt(<<>>, {}),
       Stmt(Call("square_all_list", <<"prebuilt_list">>), {}),
       Stmt(Call("square_all_array", <<"prebuilt_array">>), {}) >>

\* Mutant: cell 2 times cell 1's square_all_list against its comprehension.
Cell2_reusing_square_all_list ==
    << Stmt(<<>>, {"square_list_FL"}),
       Stmt(<<>>, {"square_list_LC"}),
       Stmt(<<>>, {}),
       Stmt(Call("square_all_list", <<"prebuilt_list">>), {}),
       Stmt(Call("square_list_LC", <<"prebuilt_list">>), {}) >>

\* Code cell 2.
Cell2 ==
    << Stmt(<<>>, {"square_list_FL"}),
       Stmt(<<>>, {"square_list_LC"}),
       Stmt(<<>>, {}),
       Stmt(Call("square_list_FL", <<"prebuilt_list">>), {}),
       Stmt(Call("square_list_LC", <<"prebuilt_list">>), {}) >>

\* Code cell 3.
Cell3 ==
    << Stmt(<<>>, {"generate_dense_matrix"}),
       Stmt(Call("generate_dense_matrix", <<>>), {"big_ndarray"}),
       Stmt(<<"np">> \o Call("generate_dense_matrix", <<>>), {"big_matrix"}),
       Stmt(<<"big_matrix">>, {}),
       Stmt(<<"big_ndarray">>, {}) >>

CellSource(c) == CASE c = 1 -> Cell1 [] c = 2 -> Cell2 [] c = 3 -> Cell3

\* The first name of reads that the namespace does not bind, or 0.
RECURSIVE FirstUnbound(_, _, _)
FirstUnbound(reads, k, n) ==
    IF k > Len(reads) THEN 0
    ELSE IF n[reads[k]] = 0 THEN k
    ELSE FirstUnbound(reads, k + 1, n)

\* Cell c from its statement k on, in session state st: statements run in
\* order, and the first lookup of an unbound name raises NameError, which
\* ends the cell and keeps what the earlier statements bound.
RECURSIVE RunFrom(_, _, _, _)
RunFrom(c, k, at, st) ==
    IF k > Len(CellSource(c)) THEN st
    ELSE LET stmt == CellSource(c)[k]
             bad == FirstUnbound(stmt.reads, 1, st.ns)
             upto == IF bad = 0 THEN Len(stmt.reads) ELSE bad - 1
             seen == {[cell |-> c, name |-> stmt.reads[j],
                       binder |-> st.ns[stmt.reads[j]]] : j \in 1..upto}
             cross == st.cross \cup {r \in seen : r.binder # c}
         IN IF bad # 0
            THEN [ns |-> st.ns, cross |-> cross,
                  errs |-> st.errs \cup
                      {[cell |-> c, name |-> stmt.reads[bad], at |-> at]}]
            ELSE RunFrom(c, k + 1, at,
                     [ns |-> [x \in Names |->
                                 IF x \in stmt.binds THEN c ELSE st.ns[x]],
                      cross |-> cross, errs |-> st.errs])

CellsIdle ==
    /\ ns = <<>>
    /\ executed = <<>>
    /\ crossReads = {}
    /\ nameErrors = {}

\* A fresh session: nothing bound, nothing run.
CellsInit ==
    /\ ns = [x \in Names |-> 0]
    /\ executed = <<>>
    /\ crossReads = {}
    /\ nameErrors = {}

RunCell(c) ==
    /\ Len(executed) < MaxRuns
    /\ LET st == RunFrom(c, 1, Len(executed) + 1,
                     [ns |-> ns, cross |-> crossReads, errs |-> nameErrors])
       IN /\ ns' = st.ns
          /\ crossReads' = st.cross
          /\ nameErrors' = st.errs
    /\ executed' = Append(executed, c)

CellsNext == \E c \in Cells : RunCell(c)

\* ------------------------------------------------------------------ cell 3
MaxN == 2
MaxP == 3

\* density=0.2, in hundredths
Density == 20

\* What np.random.rand may draw for one element, in hundredths: a value at
\* the threshold density/2 and the next one above it, so that each
\* comparison comes out either way.
Draws == {Density \div 2, Density \div 2 + 1}

\* The positions of an n-by-n buffer.
Idx(n) == (1..n) \X (1..n)

\* Complex numbers with integer parts.
Complex(a, b) == [re |-> a, im |-> b]
J == Complex(0, 1)
CAdd(x, y) == Complex(x.re + y.re, x.im + y.im)
CMul(x, y) == Complex(x.re * y.re - x.im * y.im, x.re * y.im + x.im * y.re)

\* A Boolean as a number, as numpy promotes it.
FromBool(b) == Complex(IF b THEN 1 ELSE 0, 0)

RECURSIVE CPow(_, _)
CPow(x, n) == IF n = 0 THEN Complex(1, 0) ELSE CMul(CPow(x, n - 1), x)

RECURSIVE CSum(_, _, _)
CSum(f, lo, hi) == IF lo > hi THEN Complex(0, 0) ELSE CAdd(f[lo], CSum(f, lo + 1, hi))

\* The matrix product of two n-by-n buffers.
MatMul(n, A, B) ==
    [x \in Idx(n) |->
        CSum([k \in 1..n |-> CMul(A[<<x[1], k>>], B[<<k, x[2]>>])], 1, n)]

\* np.matrix's ** : the p-fold matrix product (np.linalg.matrix_power), p >= 1.
RECURSIVE MatrixPow(_, _, _)
MatrixPow(n, M, p) == IF p = 1 THEN M ELSE MatMul(n, MatrixPow(n, M, p - 1), M)

\* np.ndarray's ** : every element raised to the power p.
ArrayPow(n, A, p) == [x \in Idx(n) |-> CPow(A[x], p)]

\* Mutant: the comparison is >= for > .
DenseMatrix_ge(n, density, r1, r2) ==
    LET re == [x \in Idx(n) |-> r1[x] * 2 >= density]
        imag == [x \in Idx(n) |-> CMul(FromBool(r2[x] * 2 >= density), J)]
    IN [x \in Idx(n) |-> CAdd(FromBool(re[x]), imag[x])]

\* The body of generate_dense_matrix(N, density) for the draws r1 and r2:
\* rand > density/2 is r * 2 > density.
DenseMatrix(n, density, r1, r2) ==
    LET re == [x \in Idx(n) |-> r1[x] * 2 > density]
        imag == [x \in Idx(n) |-> CMul(FromBool(r2[x] * 2 > density), J)]
    IN [x \in Idx(n) |-> CAdd(FromBool(re[x]), imag[x])]

MatrixIdle ==
    /\ mpc = "off"
    /\ N = 0
    /\ P = 0
    /\ randRe = <<>>
    /\ randIm = <<>>
    /\ ret = <<>>
    /\ big_ndarray = <<>>
    /\ big_matrix = <<>>
    /\ res_matrix = <<>>
    /\ res_ndarray = <<>>

\* ---- generate_dense_matrix alone
GenInit ==
    /\ mpc = "start"
    /\ N \in 1..MaxN
    /\ P = 0
    /\ randRe = <<>>
    /\ randIm = <<>>
    /\ ret = <<>>
    /\ big_ndarray = <<>>
    /\ big_matrix = <<>>
    /\ res_matrix = <<>>
    /\ res_ndarray = <<>>

generate_dense_matrix(n) ==
    /\ mpc = "start"
    /\ \E r1 \in [Idx(n) -> Draws], r2 \in [Idx(n) -> Draws] :
          /\ randRe' = r1
          /\ randIm' = r2
          /\ ret' = DenseMatrix(n, Density, r1, r2)
    /\ mpc' = "returned"
    /\ UNCHANGED <<N, P, big_ndarray, big_matrix, res_matrix, res_ndarray>>

GenNext == generate_dense_matrix(N)

\* ---- cell 3, statement by statement; the dimension and the power stand
\* for the cell's 500 and 300
MatrixInit ==
    /\ mpc = "s1"
    /\ N \in 1..MaxN
    /\ P \in 1..MaxP
    /\ randRe = <<>>
    /\ randIm = <<>>
    /\ ret = <<>>
    /\ big_ndarray = <<>>
    /\ big_matrix = <<>>
    /\ res_matrix = <<>>
    /\ res_ndarray = <<>>

\* big_ndarray = generate_dense_matrix(500)
cell3_big_ndarray ==
    /\ mpc = "s1"
    /\ \E r1 \in [Idx(N) -> Draws], r2 \in [Idx(N) -> Draws] :
          big_ndarray' = DenseMatrix(N, Density, r1, r2)
    /\ mpc' = "s2"
    /\ UNCHANGED <<N, P, randRe, randIm, ret, big_matrix, res_matrix, res_ndarray>>

\* big_matrix = np.matrix(generate_dense_matrix(500)): a second call, with
\* draws of its own; np.matrix keeps the values of a two-dimensional buffer.
cell3_big_matrix ==
    /\ mpc = "s2"
    /\ \E r1 \in [Idx(N) -> Draws], r2 \in [Idx(N) -> Draws] :
          big_matrix' = DenseMatrix(N, Density, r1, r2)
    /\ mpc' = "s3"
    /\ UNCHANGED <<N, P, randRe, randIm, ret, big_ndarray, res_matrix, res_ndarray>>

\* %timeit big_matrix**300
cell3_matrix_pow ==
    /\ mpc = "s3"
    /\ res_matrix' = MatrixPow(N, big_matrix, P)
    /\ mpc' = "s4"
    /\ UNCHANGED <<N, P, randRe, randIm, ret, big_ndarray, big_matrix, res_ndarray>>

\* %timeit big_ndarray**300
cell3_ndarray_pow ==
    /\ mpc = "s4"
    /\ res_ndarray' = ArrayPow(N, big_ndarray, P)
    /\ mpc' = "end"
    /\ UNCHANGED <<N, P, randRe, randIm, ret, big_ndarray, big_matrix, res_matrix>>

MatrixNext ==
    \/ cell3_big_ndarray
    \/ cell3_big_matrix
    \/ cell3_matrix_pow
    \/ cell3_ndarray_pow

\* ------------------------------------------------------------------ specifications
Init == BenchInit /\ CellsIdle /\ MatrixIdle
Next == BenchNext /\ UNCHANGED <<cellVars, matVars>>
Spec == Init /\ [][Next]_vars

InitCells == BenchIdle /\ CellsInit /\ MatrixIdle
NextCells == CellsNext /\ UNCHANGED <<benchVars, matVars>>
SpecCells == InitCells /\ [][NextCells]_vars

InitMatrix == BenchIdle /\ CellsIdle /\ MatrixInit
NextMatrix == MatrixNext /\ UNCHANGED <<benchVars, cellVars>>
SpecMatrix == InitMatrix /\ [][NextMatrix]_vars

InitGen == BenchIdle /\ CellsIdle /\ GenInit
NextGen == GenNext /\ UNCHANGED <<benchVars, cellVars>>
SpecGen == InitGen /\ [][NextGen]_vars

\* ------------------------------------------------------------------ claims: the benchmark functions
Returned(f) == pc = "done" /\ fn = f

\* s squared element by element, in order
Squares(s) == [i \in 1..Len(s) |-> s[i] * s[i]]

\* C1: when build_list(N) or build_array(N) returns, for any N >= 0, the
\* result has exactly N elements and its element at index i is i.
C1_BuildYieldsRange ==
    (pc = "done" /\ fn \in {"build_list", "build_array"}) =>
        /\ Len(Val(out)) = arg
        /\ \A i \in 0..(arg - 1) : Val(out)[i + 1] = i

C1_Witness ==
    /\ Returned("build_array")
    /\ arg = 5
    /\ Val(out) = <<0, 1, 2, 3, 4>>

\* C2: square_list_FL(S) and square_list_LC(S) both return a sequence of
\* len(S) elements whose element i is S[i]**2, and the result of one equals
\* the result an earlier call of the other returned for the same S.
C2_LoopEqualsComprehension ==
    /\ (pc = "done" /\ fn \in {"square_list_FL", "square_list_LC"}) =>
            /\ heap[out].kind = "list"
            /\ Val(out) = Squares(Val(arg))
    /\ (Returned("square_list_LC") /\ rem # None /\ rem.fn = "square_list_FL"
            /\ rem.arg = Val(arg)) => Val(out) = rem.val
    /\ (Returned("square_list_FL") /\ rem # None /\ rem.fn = "square_list_LC"
            /\ rem.arg = Val(arg)) => Val(out) = rem.val

C2_Witness ==
    /\ Returned("square_list_LC")
    /\ rem # None /\ rem.fn = "square_list_FL"
    /\ Val(arg) = <<2, 0, 1>>
    /\ Val(out) = <<4, 0, 1>>

\* C3: square_all_list(S) and square_all_array(S) return collections of the
\* cardinality of S holding the squares of its elements in input order, and
\* the values one returns are those an earlier call of the other returned.
C3_ListEqualsArray ==
    /\ (pc = "done" /\ fn \in {"square_all_list", "square_all_array"}) =>
            Val(out) = Squares(Val(arg))
    /\ (Returned("square_all_array") /\ rem # None /\ rem.fn = "square_all_list"
            /\ rem.arg = Val(arg)) => Val(out) = rem.val
    /\ (Returned("square_all_list") /\ rem # None /\ rem.fn = "square_all_array"
            /\ rem.arg = Val(arg)) => Val(out) = rem.val

C3_Witness ==
    /\ Returned("square_all_array")
    /\ rem # None /\ rem.fn = "square_all_list"
    /\ Val(arg) = <<0, 1, 2>>
    /\ Val(out) = <<0, 1, 4>>

\* C7: a call that returns gives the result that the remembered earlier call
\* of the same function with an equal argument gave, whatever ran between.
C7_Stateless ==
    (pc = "done" /\ rem # None /\ rem.fn = fn /\ rem.arg = ArgVal) =>
        Val(out) = rem.val

C7_Witness ==
    /\ Returned("build_list")
    /\ rem # None /\ rem.fn = fn /\ rem.arg = ArgVal
    /\ rem.n = 2
    /\ arg = 2

\* C8: the prebuilt buffers hold what they held before the first call, in
\* every state, and what a square function returns is neither of them.
C8_InputUnchanged ==
    /\ heap[PREBUILT_ARRAY] = NdArray(sample)
    /\ heap[PREBUILT_LIST] = List(sample)
    /\ (pc = "done" /\ fn \in {"square_all_list", "square_all_array",
                               "square_list_FL", "square_list_LC"}) =>
            /\ out # arg
            /\ out \notin {PREBUILT_ARRAY, PREBUILT_LIST}

C8_Witness ==
    /\ Returned("square_all_list")
    /\ rem # None /\ rem.n = 2
    /\ Len(sample) = 3
    /\ Val(out) = <<1, 4, 0>>

\* C9: in build_array, after k iterations out is the buffer made by step k,
\* every buffer made so far (step j = 0..k) still holds exactly 0..j-1, so
\* each is the unchanged prefix of the next, which adds the one element j.
C9_RebuiltEachStep ==
    (fn = "build_array" /\ pc \in {"loop", "done"}) =>
        /\ out = 3 + it
        /\ Len(heap) = 3 + it
        /\ \A j \in 0..it : heap[3 + j] = NdArray(Range(j))

C9_Witness ==
    /\ fn = "build_array" /\ pc = "loop"
    /\ arg = 3
    /\ it = 2

\* ------------------------------------------------------------------ claims: the cells
\* Cell 1 ran before position k of the run.
RanCell1Before(k) == \E j \in 1..(k - 1) : executed[j] = 1

\* C6, as stated: the only names a cell reads that another cell bound are
\* the prebuilt buffers, and cell 3 run first raises no NameError.
C6_Original ==
    /\ \A r \in crossReads : r.name \in {"prebuilt_list", "prebuilt_array"}
    /\ (executed # <<>> /\ executed[1] = 3) =>
            ~ \E e \in nameErrors : e.cell = 3 /\ e.at = 1

\* C6, amended: the names a cell reads that another cell bound are
\* prebuilt_list (read by cell 2) and np (read by cell 3), both bound by
\* cell 1; a NameError is raised exactly by cell 2 (prebuilt_list) or cell 3
\* (np) when it runs before cell 1 has run.
C6_CrossCellNames ==
    /\ \A r \in crossReads :
            /\ r.binder = 1
            /\ \/ r.cell = 2 /\ r.name = "prebuilt_list"
               \/ r.cell = 3 /\ r.name = "np"
    /\ \A e \in nameErrors :
            /\ \/ e.cell = 2 /\ e.name = "prebuilt_list"
               \/ e.cell = 3 /\ e.name = "np"
            /\ executed[e.at] = e.cell
            /\ ~ RanCell1Before(e.at)
    /\ \A k \in 1..Len(executed) :
            (executed[k] # 1 /\ ~ RanCell1Before(k)) =>
                \E e \in nameErrors : e.at = k

C6_Witness ==
    /\ executed = <<3, 1, 2, 3>>
    /\ [cell |-> 3, name |-> "np", at |-> 1] \in nameErrors
    /\ [cell |-> 3, name |-> "np", binder |-> 1] \in crossReads
    /\ [cell |-> 2, name |-> "prebuilt_list", binder |-> 1] \in crossReads

\* ------------------------------------------------------------------ claims: cell 3
\* C4: whenever the two operands of cell 3 are the same buffer B, B raised
\* to the power P as a matrix equals B raised to the power P as an array,
\* element by element.
C4_PowersEqual ==
    (mpc = "end" /\ big_matrix = big_ndarray) => res_matrix = res_ndarray

\* C5: once both are bound, big_ndarray and big_matrix hold the same
\* element at every position.
C5_SameBuffer ==
    mpc \in {"s3", "s4", "end"} =>
        \A x \in Idx(N) : big_matrix[x] = big_ndarray[x]

\* C10: what generate_dense_matrix(N) returns has exactly the N-by-N
\* positions, every element has real part 0 or 1 and imaginary part 0 or 1,
\* the real part is 1 exactly when the first draw at that position exceeds
\* density/2 and the imaginary part is 1 exactly when the second draw does.
C10_ThresholdedParts ==
    mpc = "returned" =>
        /\ DOMAIN ret = Idx(N)
        /\ \A x \in Idx(N) :
              /\ ret[x].re \in {0, 1}
              /\ ret[x].im \in {0, 1}
              /\ ret[x].re = 1 <=> randRe[x] * 2 > Density
              /\ ret[x].im = 1 <=> randIm[x] * 2 > Density

\* A 2-by-2 buffer showing all four values: the two parts are decided apart.
C10_Witness ==
    /\ mpc = "returned"
    /\ N = 2
    /\ ret[<<1, 1>>] = Complex(0, 0)
    /\ ret[<<1, 2>>] = Complex(1, 0)
    /\ ret[<<2, 1>>] = Complex(0, 1)
    /\ ret[<<2, 2>>] = Complex(1, 1)

=============================================================================
